---- MODULE Spec2Model ----
(***************************************************************************)
(* Model of the two dataset utilities of models/yolov8-run/src:            *)
(*   remap_yolo_labels.py  (remap_file, remap_split)                       *)
(*   preview_labels.py     (denorm_box, pick_label_files, main)            *)
(*                                                                         *)
(* A label file's text is a sequence of items: every whitespace character  *)
(* is one item (" ", "\t", "\n") and every maximal run of non-whitespace   *)
(* characters (a token) is one item.                                       *)
(***************************************************************************)
EXTENDS Integers, Sequences, FiniteSets, TLC

\* ------------------------------------------------------------------ bounds
\* class IDs that occur in label files and mappings are 0..MaxId
MaxId == 1
\* a single label file holds at most MaxLines records (SpecFile)
MaxLines == 2
\* a split holds NumFiles label files (SpecSplit)
NumFiles == 2
\* the label files of a split hold at most MaxRecords records together
MaxRecords == 2

\* a split holds at most NumLabelFiles label files (SpecPreview)
NumLabelFiles == 3
\* --count is -1..MaxCount (SpecPreview)
MaxCount == 3
\* --seed is 0..MaxSeed (SpecPreview)
MaxSeed == 1
\* normalized coordinates are multiples of 1/Den from -1/Den to 1 + 1/Den
Den == 2
\* images are 1..MaxDim pixels wide and high
MaxDim == 2

ClassIds == 0..MaxId

\* ------------------------------------------------------------ text helpers
\* no ValueError was raised
NoErr == [file |-> 0, id |-> -1]

Canon == <<"0", "1", "2", "3", "4">>
Padded == <<"00", "01", "02", "03", "04">>
Coords == <<"0.1", "0.3", "0.5", "0.7", "0.9">>

IsSpace(c) == c \in {" ", "\t", "\n"}

\* int(tok): the integer a class-ID token denotes ("01" and "1" are both 1)
IntOf(tok) == CHOOSE n \in 0..(Len(Canon) - 1) : tok \in {Canon[n + 1], Padded[n + 1]}

\* str(n): the canonical decimal token of n
StrOf(n) == Canon[n + 1]

RECURSIVE LStrip(_)
LStrip(t) == IF t # <<>> /\ IsSpace(Head(t)) THEN LStrip(Tail(t)) ELSE t

RECURSIVE RStrip(_)
RStrip(t) ==
  IF t # <<>> /\ IsSpace(t[Len(t)]) THEN RStrip(SubSeq(t, 1, Len(t) - 1)) ELSE t

\* str.strip()
Strip(t) == RStrip(LStrip(t))

FirstNewline(t) ==
  IF \E i \in 1..Len(t) : t[i] = "\n"
  THEN CHOOSE i \in 1..Len(t) : t[i] = "\n" /\ \A j \in 1..(i - 1) : t[j] # "\n"
  ELSE 0

\* str.splitlines(): no empty last line after a final newline
RECURSIVE SplitLines(_)
SplitLines(t) ==
  IF t = <<>> THEN <<>>
  ELSE LET i == FirstNewline(t) IN
       IF i = 0 THEN <<t>>
       ELSE <<SubSeq(t, 1, i - 1)>> \o SplitLines(SubSeq(t, i + 1, Len(t)))

\* str.split(): the tokens of a line
Split(line) == SelectSeq(line, LAMBDA c : ~IsSpace(c))

\* sep.join(parts), parts being sequences of items
RECURSIVE Join(_, _)
Join(sep, parts) ==
  IF parts = <<>> THEN <<>>
  ELSE IF Len(parts) = 1 THEN Head(parts)
  ELSE Head(parts) \o <<sep>> \o Join(sep, Tail(parts))

\* " ".join(parts), parts being tokens
JoinTokens(parts) == Join(" ", [i \in 1..Len(parts) |-> <<parts[i]>>])

\* the text write_text receives: "\n".join(new_lines) + "\n"
WriteText(new_lines) == Join("\n", new_lines) \o <<"\n">>

\* ------------------------------------------------------------- remap_file
\* mapping: a function from a set of class IDs to class IDs (dict[int, int])

\* dst_id = mapping[mapping[src_id]] (variant that chains through an entry)
DstIdChained(mapping, src_id) ==
  IF mapping[src_id] \in DOMAIN mapping THEN mapping[mapping[src_id]]
  ELSE mapping[src_id]

\* dst_id = mapping[src_id]
DstId(mapping, src_id) == mapping[src_id]

\* the loop over lines: i is the next line, changed and new_lines its locals
RECURSIVE RemapLoop(_, _, _, _, _)
RemapLoop(lines, mapping, i, changed, new_lines) ==
  IF i > Len(lines)
  THEN [raised |-> FALSE, id |-> -1, changed |-> changed, new_lines |-> new_lines]
  ELSE IF Strip(lines[i]) = <<>>
  THEN RemapLoop(lines, mapping, i + 1, changed, new_lines)
  ELSE LET parts == Split(lines[i])
           src_id == IntOf(parts[1])
       IN IF src_id \notin DOMAIN mapping
          THEN [raised |-> TRUE, id |-> src_id, changed |-> changed,
                new_lines |-> new_lines]
          ELSE LET dst_id == DstId(mapping, src_id)
                   parts2 == [parts EXCEPT ![1] = StrOf(dst_id)]
               IN RemapLoop(lines, mapping, i + 1, changed \/ dst_id # src_id,
                            Append(new_lines, JoinTokens(parts2)))

\* variant that flushes the lines rewritten so far when the loop raises
RemapFilePartialWrite(text, mapping) ==
  LET r == RemapLoop(SplitLines(Strip(text)), mapping, 1, FALSE, <<>>)
  IN [raised |-> r.raised, id |-> r.id, changed |-> r.changed,
      text |-> IF r.changed THEN WriteText(r.new_lines) ELSE text]

\* variant that writes the file whether or not an ID changed
RemapFileAlwaysWrite(text, mapping) ==
  LET r == RemapLoop(SplitLines(Strip(text)), mapping, 1, FALSE, <<>>)
  IN [raised |-> r.raised, id |-> r.id, changed |-> r.changed,
      text |-> IF ~r.raised THEN WriteText(r.new_lines) ELSE text]

\* remap_file(path, mapping) on a file holding `text`: whether it raised
\* ValueError (and for which ID), its return value, the text on disk after it
RemapFile(text, mapping) ==
  LET r == RemapLoop(SplitLines(Strip(text)), mapping, 1, FALSE, <<>>)
  IN [raised |-> r.raised, id |-> r.id, changed |-> r.changed,
      text |-> IF ~r.raised /\ r.changed THEN WriteText(r.new_lines) ELSE text]

\* ------------------------------------------------------- label file inputs
Styles == {"clean", "messy"}

\* record i of a file, holding class `id`
MakeLine(id, i, style) ==
  IF style = "clean"
  THEN <<Canon[id + 1], " ", Coords[i], " ", "0.5", " ", "0.2", " ", "0.2">>
  ELSE <<Padded[id + 1], "\t", Coords[i], " ", " ", "0.5", " ", "0.2", "\t", "0.2", " ">>

\* clean: one record per line, single spaces, final newline
\* messy: leading blank line, zero-padded IDs, tabs and runs of spaces, a
\*        whitespace-only line between records, no final newline
MakeText(ids, style) ==
  IF style = "clean"
  THEN Join("\n", [i \in 1..Len(ids) |-> MakeLine(ids[i], i, style)])
       \o (IF ids = <<>> THEN <<>> ELSE <<"\n">>)
  ELSE <<"\n">> \o
       Join("\n", [i \in 1..Len(ids) |->
                     IF i = 1 THEN MakeLine(ids[i], i, style)
                     ELSE <<" ", "\n">> \o MakeLine(ids[i], i, style)])

IdSeqs(n) == UNION {[1..k -> ClassIds] : k \in 0..n}

\* every mapping a non-empty list of SRC:DST options builds
Mappings == UNION {[keys -> ClassIds] : keys \in (SUBSET ClassIds) \ {{}}}

\* ------------------------------------------------------------------ state
VARIABLES
  labelsDir,  \* remap: <base_dir>/<split>/labels is a directory
  disk,       \* remap: label file -> its text on disk
  disk0,      \* remap: the texts before the operation under study began
  mapping,    \* remap: the ID mapping of the call
  order,      \* remap_split: the order labels_dir.glob("*.txt") yields
  idx,        \* remap_split: position of the for loop in `order`
  changes,    \* remap_split: its local `changes`
  rpc,        \* remap: "idle", "running", "returned", "raised", "missing", "killed"
  ret,        \* remap_file: its return value (SpecFile)
  err,        \* remap: the file and ID the ValueError names, or NoErr
  resumed,    \* remap_split: the run was started again after a kill
  pLabelsDir,   \* preview: <base_dir>/<split>/labels is a directory
  labelFiles,   \* preview: the stems of the *.txt files in it
  images,       \* preview: the stems that have an image in images/
  count,        \* preview: args.count
  randomize,    \* preview: args.random
  seed,         \* preview: args.seed
  rng,          \* preview: state of the process-wide generator of `random`
  selected,     \* preview main: its local `selected`
  pos,          \* preview main: position of the for loop in `selected`
  outputs,      \* preview: the stems whose preview image was written
  ppc,          \* preview main: "start", "seeded", "picked", "rendering",
                \*   "exit_nolabels", "raised_noimage", "done"
  ran,          \* preview: an earlier invocation picked its files
  prevSelected, \* preview: what that invocation picked
  geo,          \* geometry: the arguments of denorm_box
  box,          \* geometry: what denorm_box returned
  gdone         \* geometry: denorm_box was called

remapVars == <<labelsDir, disk, disk0, mapping, order, idx, changes, rpc, ret, err,
               resumed>>
previewVars == <<pLabelsDir, labelFiles, images, count, randomize, seed, rng,
                 selected, pos, outputs, ppc, ran, prevSelected>>
geomVars == <<geo, box, gdone>>
vars == <<remapVars, previewVars, geomVars>>

\* the tool is not running
RemapIdle ==
  /\ labelsDir = FALSE /\ disk = <<>> /\ disk0 = <<>> /\ mapping = <<>>
  /\ order = <<>> /\ idx = 1 /\ changes = 0
  /\ rpc = "idle" /\ ret = FALSE /\ err = NoErr /\ resumed = FALSE

PreviewIdle ==
  /\ pLabelsDir = FALSE /\ labelFiles = {} /\ images = {}
  /\ count = 0 /\ randomize = FALSE /\ seed = 0 /\ rng = 0
  /\ selected = <<>> /\ pos = 1 /\ outputs = {}
  /\ ppc = "start" /\ ran = FALSE /\ prevSelected = <<>>

NoBox == [x0 |-> 0, y0 |-> 0, x1 |-> 0, y1 |-> 0]

GeomIdle ==
  /\ geo = [cx |-> 0, cy |-> 0, w |-> 0, h |-> 0, width |-> 1, height |-> 1]
  /\ box = NoBox /\ gdone = FALSE

\* the class IDs of the non-blank lines of a text, in order
LineIds(text) ==
  LET recs == SelectSeq(SplitLines(Strip(text)), LAMBDA l : Strip(l) # <<>>)
  IN [k \in 1..Len(recs) |-> IntOf(Split(recs[k])[1])]

\* the tokens after the class ID of every non-blank line, in order
LineRests(text) ==
  LET recs == SelectSeq(SplitLines(Strip(text)), LAMBDA l : Strip(l) # <<>>)
  IN [k \in 1..Len(recs) |-> Tail(Split(recs[k]))]

IdSet(text) == {LineIds(text)[k] : k \in 1..Len(LineIds(text))}

Perms(S) == {p \in [1..Cardinality(S) -> S] : \A a \in S : \E i \in DOMAIN p : p[i] = a}

\* ---------------------------------------------------------------- SpecFile
\* remap_file called on one label file, again and again, with one mapping

InitFile ==
  /\ labelsDir = TRUE
  /\ \E ids \in IdSeqs(MaxLines), style \in Styles :
       disk = [f \in {1} |-> MakeText(ids, style)]
  /\ disk0 = disk
  /\ mapping \in Mappings
  /\ order = <<1>> /\ idx = 1 /\ changes = 0
  /\ rpc = "idle" /\ ret = FALSE /\ err = NoErr /\ resumed = FALSE
  /\ PreviewIdle /\ GeomIdle

CallRemapFile ==
  LET r == RemapFile(disk[1], mapping) IN
  /\ disk0' = disk
  /\ disk' = [disk EXCEPT ![1] = r.text]
  /\ rpc' = IF r.raised THEN "raised" ELSE "returned"
  /\ ret' = IF r.raised THEN FALSE ELSE r.changed
  /\ err' = IF r.raised THEN [file |-> 1, id |-> r.id] ELSE NoErr
  /\ UNCHANGED <<previewVars, geomVars, labelsDir, mapping, order, idx,
                 changes, resumed>>

NextFile == CallRemapFile

SpecFile == InitFile /\ [][NextFile]_vars

\* --------------------------------------------------------------- SpecSplit
\* remap_split over the label files 1..NumFiles of one split; the process may
\* be killed between two files and remap_split run again

Files == 1..NumFiles

\* the ID sequences of the files of a split, at most MaxRecords IDs together
RECURSIVE TotalLen(_, _)
TotalLen(c, n) == IF n = 0 THEN 0 ELSE Len(c[n]) + TotalLen(c, n - 1)

RECURSIVE Flat(_, _)
Flat(c, n) == IF n = 0 THEN <<>> ELSE Flat(c, n - 1) \o c[n]

\* class IDs are interchangeable names (only compared and looked up), so the
\* IDs of a split are named in order of first appearance: 0, then 1, ...
FirstAppearanceOrder(s) ==
  \A i \in 1..Len(s) : s[i] <= Cardinality({s[j] : j \in 1..(i - 1)})

SplitContents ==
  {c \in [Files -> IdSeqs(MaxRecords)] :
     /\ TotalLen(c, NumFiles) <= MaxRecords
     /\ FirstAppearanceOrder(Flat(c, NumFiles))}

\* odd files are written in the messy style, even files in the clean one
StyleOf(f) == IF f % 2 = 1 THEN "messy" ELSE "clean"

RemapStart ==
  /\ disk0 = disk
  /\ mapping \in Mappings
  /\ idx = 1 /\ changes = 0
  /\ rpc = "idle" /\ ret = FALSE /\ err = NoErr /\ resumed = FALSE

InitSplit ==
  /\ labelsDir \in BOOLEAN
  /\ IF labelsDir
     THEN \E c \in SplitContents : disk = [f \in Files |-> MakeText(c[f], StyleOf(f))]
     ELSE disk = <<>>
  /\ order = <<>>
  /\ RemapStart
  /\ PreviewIdle /\ GeomIdle

\* remap_split, lines 50-52: the labels directory is missing
StartMissing ==
  /\ rpc = "idle" /\ ~labelsDir
  /\ rpc' = "missing"
  /\ UNCHANGED <<previewVars, geomVars, labelsDir, disk, disk0, mapping,
                 order, idx, changes, ret, err, resumed>>

\* remap_split, lines 50-55: the directory exists, glob yields some order
StartSplit ==
  /\ rpc = "idle" /\ labelsDir
  /\ order' \in Perms(DOMAIN disk)
  /\ idx' = 1 /\ changes' = 0 /\ rpc' = "running"
  /\ UNCHANGED <<previewVars, geomVars, labelsDir, disk, disk0, mapping, ret,
                 err, resumed>>

\* variant of the loop body that absorbs the ValueError and goes on
ProcessFileSkipOnError ==
  /\ rpc = "running" /\ idx <= Len(order)
  /\ LET f == order[idx]
         r == RemapFile(disk[f], mapping)
     IN /\ disk' = [disk EXCEPT ![f] = r.text]
        /\ ret' = IF r.raised THEN FALSE ELSE r.changed
        /\ err' = IF r.raised THEN [file |-> f, id |-> r.id] ELSE err
        /\ changes' = IF ~r.raised /\ r.changed THEN changes + 1 ELSE changes
        /\ idx' = idx + 1
        /\ rpc' = "running"
  /\ UNCHANGED <<previewVars, geomVars, labelsDir, disk0, mapping, order,
                 resumed>>

\* variant of the loop body that sets the count instead of adding to it
ProcessFileSetsCount ==
  /\ rpc = "running" /\ idx <= Len(order)
  /\ LET f == order[idx]
         r == RemapFile(disk[f], mapping)
     IN /\ disk' = [disk EXCEPT ![f] = r.text]
        /\ ret' = IF r.raised THEN FALSE ELSE r.changed
        /\ err' = IF r.raised THEN [file |-> f, id |-> r.id] ELSE err
        /\ changes' = IF ~r.raised /\ r.changed THEN 1 ELSE changes
        /\ idx' = IF r.raised THEN idx ELSE idx + 1
        /\ rpc' = IF r.raised THEN "raised" ELSE "running"
  /\ UNCHANGED <<previewVars, geomVars, labelsDir, disk0, mapping, order,
                 resumed>>

\* remap_split, lines 55-57: one iteration of the for loop
ProcessFile ==
  /\ rpc = "running" /\ idx <= Len(order)
  /\ LET f == order[idx]
         r == RemapFile(disk[f], mapping)
     IN /\ disk' = [disk EXCEPT ![f] = r.text]
        /\ ret' = IF r.raised THEN FALSE ELSE r.changed
        /\ err' = IF r.raised THEN [file |-> f, id |-> r.id] ELSE err
        /\ changes' = IF ~r.raised /\ r.changed THEN changes + 1 ELSE changes
        /\ idx' = IF r.raised THEN idx ELSE idx + 1
        /\ rpc' = IF r.raised THEN "raised" ELSE "running"
  /\ UNCHANGED <<previewVars, geomVars, labelsDir, disk0, mapping, order,
                 resumed>>

\* remap_split, line 58: the loop is over, `changes` is returned
ReturnSplit ==
  /\ rpc = "running" /\ idx > Len(order)
  /\ rpc' = "returned"
  /\ UNCHANGED <<previewVars, geomVars, labelsDir, disk, disk0, mapping,
                 order, idx, changes, ret, err, resumed>>

\* the process is killed between two iterations of the loop
Kill ==
  /\ rpc = "running" /\ idx <= Len(order)
  /\ rpc' = "killed"
  /\ UNCHANGED <<previewVars, geomVars, labelsDir, disk, disk0, mapping,
                 order, idx, changes, ret, err, resumed>>

\* variant of Rerun that carries on at the old position of the loop
RerunKeepsPosition ==
  /\ rpc = "killed"
  /\ order' \in Perms(DOMAIN disk)
  /\ idx' = idx /\ changes' = 0 /\ rpc' = "running"
  /\ ret' = FALSE /\ err' = NoErr /\ resumed' = TRUE
  /\ UNCHANGED <<previewVars, geomVars, labelsDir, disk, disk0, mapping>>

\* remap_split is run again with the same mapping over the whole split
Rerun ==
  /\ rpc = "killed"
  /\ order' \in Perms(DOMAIN disk)
  /\ idx' = 1 /\ changes' = 0 /\ rpc' = "running"
  /\ ret' = FALSE /\ err' = NoErr /\ resumed' = TRUE
  /\ UNCHANGED <<previewVars, geomVars, labelsDir, disk, disk0, mapping>>

NextSplit ==
  \/ StartMissing
  \/ StartSplit
  \/ ProcessFile
  \/ ReturnSplit
  \/ Kill
  \/ Rerun

SpecSplit == InitSplit /\ [][NextSplit]_vars

\* remap_split run to its end over the texts d in the order o, as a function
RECURSIVE RunSplit(_, _, _, _, _)
RunSplit(d, o, m, i, n) ==
  IF i > Len(o)
  THEN [rpc |-> "returned", disk |-> d, changes |-> n, err |-> NoErr]
  ELSE LET r == RemapFile(d[o[i]], m) IN
       IF r.raised
       THEN [rpc |-> "raised", disk |-> d, changes |-> n,
             err |-> [file |-> o[i], id |-> r.id]]
       ELSE RunSplit([d EXCEPT ![o[i]] = r.text], o, m, i + 1,
                     IF r.changed THEN n + 1 ELSE n)

\* ------------------------------------------------- vocabulary of the claims
\* some line of the text has a class ID that is no key of m
Unknown(text, m) == \E id \in IdSet(text) : id \notin DOMAIN m

\* the class ID of the first line whose ID is no key of m
FirstUnknown(text, m) ==
  LET ids == LineIds(text)
      k == CHOOSE k \in 1..Len(ids) :
             ids[k] \notin DOMAIN m /\ \A j \in 1..(k - 1) : ids[j] \in DOMAIN m
  IN ids[k]

\* every class ID of the text is a key of m mapped to itself
IdentityOn(text, m) == \A id \in IdSet(text) : id \in DOMAIN m /\ m[id] = id

\* some class ID of the text is a key of m mapped to another ID
SomeIdMoves(text, m) == \E id \in IdSet(text) : id \in DOMAIN m /\ m[id] # id

NoUnknownIn(d, m) == \A f \in DOMAIN d : ~Unknown(d[f], m)

\* m maps the destination of every class ID present in d to itself
IdempotentOn(d, m) ==
  \A f \in DOMAIN d : \A id \in IdSet(d[f]) \cap DOMAIN m :
    m[id] \in DOMAIN m /\ m[m[id]] = m[id]

SortedOrder == [i \in 1..Cardinality(DOMAIN disk0) |-> i]

\* what one call of remap_file makes of every original file
EachFileRemapped == [f \in DOMAIN disk0 |-> RemapFile(disk0[f], mapping).text]

\* -------------------------------------------------------------- claims C1-C4

\* C1: when some non-blank line of the file has a class ID that is no key of
\* the mapping, remap_file raises the unknown-class-id error naming the file
\* and the first such ID, and the file's text is what it was before the call.
C1_UnknownIdRaisesFileUntouched ==
  (rpc # "idle" /\ Unknown(disk0[1], mapping)) =>
    /\ rpc = "raised"
    /\ err = [file |-> 1, id |-> FirstUnknown(disk0[1], mapping)]
    /\ disk = disk0

\* a call raised on the second record after a first record whose ID moves
C1_Witness ==
  /\ rpc = "raised"
  /\ Len(LineIds(disk0[1])) >= 2
  /\ LineIds(disk0[1])[1] \in DOMAIN mapping
  /\ mapping[LineIds(disk0[1])[1]] # LineIds(disk0[1])[1]
  /\ LineIds(disk0[1])[2] \notin DOMAIN mapping

\* C3: when every class ID of the file is a key and some ID moves, remap_file
\* returns true and the file then holds one line per original non-blank line,
\* in order, whose first token is str(mapping[id]) and whose other tokens are
\* the original ones, every line ended by a newline.
C3_RewrittenLines ==
  (rpc # "idle" /\ ~Unknown(disk0[1], mapping) /\ SomeIdMoves(disk0[1], mapping)) =>
    LET ids == LineIds(disk0[1])
        rests == LineRests(disk0[1])
        new == disk[1]
        lines == SplitLines(new)
    IN /\ rpc = "returned" /\ ret = TRUE
       /\ new # <<>> /\ new[Len(new)] = "\n"
       /\ Cardinality({i \in 1..Len(new) : new[i] = "\n"}) = Len(ids)
       /\ Len(lines) = Len(ids)
       /\ \A k \in 1..Len(ids) :
            Split(lines[k]) = <<StrOf(mapping[ids[k]])>> \o rests[k]

\* a messy two-record file was rewritten, the destination of its first ID
\* being itself a key that maps elsewhere
C3_Witness ==
  /\ rpc = "returned" /\ ret = TRUE
  /\ Len(LineIds(disk0[1])) >= 2
  /\ disk0[1][1] = "\n"
  /\ mapping[LineIds(disk0[1])[1]] \in DOMAIN mapping
  /\ mapping[mapping[LineIds(disk0[1])[1]]] # mapping[LineIds(disk0[1])[1]]

\* C4: when every class ID of a file is a key mapped to itself, the loop body
\* of remap_split leaves the file's text as it was, remap_file returns false
\* and the count is not raised; this holds in a second run as well.
C4_IdentityLeavesFile ==
  [][(/\ rpc = "running" /\ idx <= Len(order) /\ rpc' # "killed"
      /\ IdentityOn(disk[order[idx]], mapping))
     => (/\ disk' = disk /\ changes' = changes /\ ret' = FALSE
         /\ idx' = idx + 1 /\ rpc' = "running")]_vars

\* in a second run, a file the first run rewrote was processed and left alone
C4_Witness ==
  /\ resumed /\ rpc = "running" /\ idx > 1 /\ ret = FALSE
  /\ disk[order[idx - 1]] # disk0[order[idx - 1]]
  /\ LineIds(disk[order[idx - 1]]) # <<>>
  /\ IdentityOn(disk[order[idx - 1]], mapping)

\* -------------------------------------------------------- claims C2, C9, C10

\* C2: in a first run of remap_split the loop never passes a file holding an
\* unknown class ID: the run ends raised at that file, the error names it and
\* its first unknown ID, no count is returned, and every file enumerated at
\* or after the failing one keeps its original text.
C2_FailureStopsTheSplit ==
  (~resumed /\ rpc \in {"running", "returned", "raised", "killed"}) =>
    /\ \A j \in 1..(idx - 1) : ~Unknown(disk0[order[j]], mapping)
    /\ \A j \in idx..Len(order) : disk[order[j]] = disk0[order[j]]
    /\ rpc = "raised" =>
         /\ Unknown(disk0[order[idx]], mapping)
         /\ err = [file |-> order[idx],
                   id |-> FirstUnknown(disk0[order[idx]], mapping)]
    /\ rpc = "returned" => NoUnknownIn(disk0, mapping)

\* the run raised at a file that is followed by a file whose ID would move
C2_Witness ==
  /\ ~resumed /\ rpc = "raised" /\ idx < Len(order)
  /\ SomeIdMoves(disk[order[idx + 1]], mapping)
  /\ ~Unknown(disk[order[idx + 1]], mapping)

\* C9 as stated: after a kill between two files and a second run that
\* returns, every file holds what one uninterrupted run leaves in it.
C9_RerunEqualsOneRun ==
  (resumed /\ rpc = "returned") => disk = EachFileRemapped

\* C9 amended: when the mapping maps the destination of every class ID
\* present to itself, a run started again after a kill that returns leaves in
\* every file what one uninterrupted run leaves, and it raises only if some
\* original file holds an unknown class ID.
C9_RerunEqualsOneRunIfIdempotent ==
  (resumed /\ IdempotentOn(disk0, mapping)) =>
    /\ rpc = "returned" => disk = EachFileRemapped
    /\ rpc = "raised" => ~NoUnknownIn(disk0, mapping)

\* a second run returned without rewriting anything, the killed run having
\* rewritten a file already
C9_Witness ==
  /\ resumed /\ rpc = "returned" /\ IdempotentOn(disk0, mapping)
  /\ changes = 0 /\ disk # disk0

\* C10 as stated: a first run ends as the run in sorted order ends: both
\* return the same count or both fail, and every file holds the same text.
C10_OrderImmaterial ==
  (~resumed /\ rpc \in {"returned", "raised"}) =>
    LET u == RunSplit(disk0, SortedOrder, mapping, 1, 0)
    IN /\ rpc = u.rpc /\ disk = u.disk
       /\ rpc = "returned" => changes = u.changes

\* C10 amended: when every class ID of the split is a key, every order ends
\* returned with the same count, the number of files rewritten, and the same
\* texts; when some file holds an unknown class ID every order ends raised
\* at such a file.
C10_OrderImmaterialWhenAllKeys ==
  (~resumed /\ rpc \in {"returned", "raised"}) =>
    IF NoUnknownIn(disk0, mapping)
    THEN LET u == RunSplit(disk0, SortedOrder, mapping, 1, 0)
         IN /\ rpc = "returned" /\ u.rpc = "returned"
            /\ changes = u.changes /\ disk = u.disk
            /\ changes = Cardinality({f \in DOMAIN disk : disk[f] # disk0[f]})
            /\ disk = EachFileRemapped
    ELSE /\ rpc = "raised"
         /\ Unknown(disk0[err.file], mapping)
         /\ err.id = FirstUnknown(disk0[err.file], mapping)

\* a run in another order than the sorted one returned a count of two or more
C10_Witness ==
  /\ ~resumed /\ rpc = "returned" /\ order # SortedOrder
  /\ changes >= NumFiles

\* ------------------------------------------------------------- SpecPreview
\* preview_labels.py main, invoked again and again on the same inputs

Stems == 1..NumLabelFiles
Counts == -1..MaxCount
Seeds == 0..MaxSeed

\* the process-wide generator of `random`, as a small linear congruential
\* generator: its states, random.seed(s), one draw, and _randbelow(n)
RngStates == 0..7
SeedState(s) == s % 8
NextRng(r) == (5 * r + 3) % 8
RandBelow(r, n) == r % n

\* sorted(paths): stems compare as their file names do
Sorted(listing) == SortSeq(listing, LAMBDA a, b : a < b)

\* random.shuffle(x): for i in reversed(range(1, len(x))), swap x[i] with
\* x[_randbelow(i + 1)]; i here is the 1-based position
RECURSIVE Shuffle(_, _, _)
Shuffle(x, i, r) ==
  IF i < 2 THEN [files |-> x, rng |-> r]
  ELSE LET j == 1 + RandBelow(r, i)
       IN Shuffle([x EXCEPT ![i] = x[j], ![j] = x[i]], i - 1, NextRng(r))

Min(a, b) == IF a < b THEN a ELSE b
Max(a, b) == IF a > b THEN a ELSE b

\* files[:n]
Slice(files, n) ==
  IF n >= 0 THEN SubSeq(files, 1, Min(n, Len(files)))
  ELSE SubSeq(files, 1, Max(Len(files) + n, 0))

\* pick_label_files(labels_dir, count, randomize) on what glob yields, with
\* the generator in state r: the list returned and the generator afterwards
PickLabelFiles(listing, n, rand, r) ==
  LET files == Sorted(listing)
      sh == IF rand THEN Shuffle(files, Len(files), r)
            ELSE [files |-> files, rng |-> r]
  IN [files |-> Slice(sh.files, n), rng |-> sh.rng]

InitPreview ==
  /\ pLabelsDir \in BOOLEAN
  /\ labelFiles \in (IF pLabelsDir THEN SUBSET Stems ELSE {{}})
  /\ images \in SUBSET labelFiles
  /\ count \in Counts /\ randomize \in BOOLEAN /\ seed \in Seeds
  /\ rng \in RngStates
  /\ selected = <<>> /\ pos = 1 /\ outputs = {}
  /\ ppc = "start" /\ ran = FALSE /\ prevSelected = <<>>
  /\ RemapIdle /\ GeomIdle

\* variant of main without line 131: the generator is left as it is
MainSeedOmitted ==
  /\ ppc = "start"
  /\ rng' = rng
  /\ ppc' = "seeded"
  /\ UNCHANGED <<remapVars, geomVars, pLabelsDir, labelFiles, images, count,
                 randomize, seed, selected, pos, outputs, ran, prevSelected>>

\* main, line 131: random.seed(args.seed)
MainSeed ==
  /\ ppc = "start"
  /\ rng' = SeedState(seed)
  /\ ppc' = "seeded"
  /\ UNCHANGED <<remapVars, geomVars, pLabelsDir, labelFiles, images, count,
                 randomize, seed, selected, pos, outputs, ran, prevSelected>>

\* main, line 136: glob yields the files in some order (nothing when the
\* directory is missing) and pick_label_files picks
MainPick ==
  /\ ppc = "seeded"
  /\ \E listing \in Perms(labelFiles) :
       LET p == PickLabelFiles(listing, count, randomize, rng)
       IN selected' = p.files /\ rng' = p.rng
  /\ ppc' = "picked"
  /\ UNCHANGED <<remapVars, geomVars, pLabelsDir, labelFiles, images, count,
                 randomize, seed, pos, outputs, ran, prevSelected>>

\* main, lines 137-138: raise SystemExit("No label files found in ...")
MainExitNoLabels ==
  /\ ppc = "picked" /\ selected = <<>>
  /\ ppc' = "exit_nolabels"
  /\ UNCHANGED <<remapVars, geomVars, pLabelsDir, labelFiles, images, count,
                 randomize, seed, rng, selected, pos, outputs, ran,
                 prevSelected>>

\* main, lines 137-140: the selection is not empty, the for loop starts
MainStartLoop ==
  /\ ppc = "picked" /\ selected # <<>>
  /\ ppc' = "rendering" /\ pos' = 1
  /\ UNCHANGED <<remapVars, geomVars, pLabelsDir, labelFiles, images, count,
                 randomize, seed, rng, selected, outputs, ran, prevSelected>>

\* main, lines 140-145: one iteration; find_image raises FileNotFoundError
\* when the stem has no image, else the preview is written
MainRenderOne ==
  /\ ppc = "rendering" /\ pos <= Len(selected)
  /\ IF selected[pos] \in images
     THEN outputs' = outputs \cup {selected[pos]} /\ pos' = pos + 1 /\ ppc' = ppc
     ELSE outputs' = outputs /\ pos' = pos /\ ppc' = "raised_noimage"
  /\ UNCHANGED <<remapVars, geomVars, pLabelsDir, labelFiles, images, count,
                 randomize, seed, rng, selected, ran, prevSelected>>

\* main: the for loop is over
MainDone ==
  /\ ppc = "rendering" /\ pos > Len(selected)
  /\ ppc' = "done"
  /\ UNCHANGED <<remapVars, geomVars, pLabelsDir, labelFiles, images, count,
                 randomize, seed, rng, selected, pos, outputs, ran,
                 prevSelected>>

\* the tool is invoked again, by a new process, on the same inputs
Reinvoke ==
  /\ ppc \in {"exit_nolabels", "raised_noimage", "done"}
  /\ ppc' = "start" /\ rng' \in RngStates
  /\ ran' = TRUE /\ prevSelected' = selected
  /\ selected' = <<>> /\ pos' = 1
  /\ UNCHANGED <<remapVars, geomVars, pLabelsDir, labelFiles, images, count,
                 randomize, seed, outputs>>

NextPreview ==
  \/ MainSeed
  \/ MainPick
  \/ MainExitNoLabels
  \/ MainStartLoop
  \/ MainRenderOne
  \/ MainDone
  \/ Reinvoke

SpecPreview == InitPreview /\ [][NextPreview]_vars

\* ---------------------------------------------------------------- SpecGeom
\* denorm_box on exact fractions: a normalized coordinate c stands for c/Den,
\* a pixel coordinate p of the result for p/(2*Den)

NormCoords == -1..(Den + 1)
Dims == 1..MaxDim

\* float(width) in the unit of the result
Px(n) == n * 2 * Den

\* variant that returns the corners without clamping them
DenormBoxNoClamp(cx, cy, w, h, width, height) ==
  [x0 |-> (2 * cx - w) * width, y0 |-> (2 * cy - h) * height,
   x1 |-> (2 * cx + w) * width, y1 |-> (2 * cy + h) * height]

\* denorm_box(cx, cy, w, h, width, height)
DenormBox(cx, cy, w, h, width, height) ==
  LET x0 == (2 * cx - w) * width
      y0 == (2 * cy - h) * height
      x1 == (2 * cx + w) * width
      y1 == (2 * cy + h) * height
  IN [x0 |-> Max(0, x0), y0 |-> Max(0, y0),
      x1 |-> Min(Px(width), x1), y1 |-> Min(Px(height), y1)]

InitGeom ==
  /\ geo \in [cx : NormCoords, cy : NormCoords, w : NormCoords, h : NormCoords,
              width : Dims, height : Dims]
  /\ box = NoBox /\ gdone = FALSE
  /\ RemapIdle /\ PreviewIdle

\* draw_boxes, line 74: x0, y0, x1, y1 = denorm_box(cx, cy, w, h, width, height)
CallDenormBox ==
  /\ ~gdone
  /\ box' = DenormBox(geo.cx, geo.cy, geo.w, geo.h, geo.width, geo.height)
  /\ gdone' = TRUE
  /\ UNCHANGED <<remapVars, previewVars, geo>>

NextGeom == CallDenormBox

SpecGeom == InitGeom /\ [][NextGeom]_vars

\* -------------------------------------------------------------- claims C5-C8

\* the corners before clamping, in the unit of the result
RawBox ==
  [x0 |-> (2 * geo.cx - geo.w) * geo.width, y0 |-> (2 * geo.cy - geo.h) * geo.height,
   x1 |-> (2 * geo.cx + geo.w) * geo.width, y1 |-> (2 * geo.cy + geo.h) * geo.height]

\* C5: denorm_box returns x0 >= 0, y0 >= 0, x1 <= width, y1 <= height, each
\* output being the unclamped value when that value meets its bound and the
\* bound itself otherwise.
C5_ClampedToImage ==
  gdone =>
    /\ box.x0 >= 0 /\ box.y0 >= 0
    /\ box.x1 <= Px(geo.width) /\ box.y1 <= Px(geo.height)
    /\ box.x0 = (IF RawBox.x0 >= 0 THEN RawBox.x0 ELSE 0)
    /\ box.y0 = (IF RawBox.y0 >= 0 THEN RawBox.y0 ELSE 0)
    /\ box.x1 = (IF RawBox.x1 <= Px(geo.width) THEN RawBox.x1 ELSE Px(geo.width))
    /\ box.y1 = (IF RawBox.y1 <= Px(geo.height) THEN RawBox.y1 ELSE Px(geo.height))

\* a box that sticks out on the left and at the bottom was clamped there and
\* kept its other two corners
C5_Witness ==
  /\ gdone
  /\ RawBox.x0 < 0 /\ box.x0 = 0
  /\ RawBox.y1 > Px(geo.height) /\ box.y1 = Px(geo.height)
  /\ RawBox.y0 > 0 /\ box.y0 = RawBox.y0
  /\ RawBox.x1 < Px(geo.width) /\ box.x1 = RawBox.x1

\* the label files in sorted order
SortedFiles == Sorted(CHOOSE l \in Perms(labelFiles) : TRUE)

\* C6: with randomize false pick_label_files returns at most count entries,
\* the first count files of the sorted order (all when fewer exist, none when
\* count is 0 or below), whatever order the directory is enumerated in.
C6_FirstCountOfSorted ==
  (ppc = "picked" /\ ~randomize) =>
    /\ Len(selected) <= Max(count, 0)
    /\ selected = SubSeq(SortedFiles, 1, Min(Max(count, 0), Len(SortedFiles)))

\* C7: a run that ends with the empty-selection exit wrote no output file,
\* and its labels directory exists: a missing directory ends otherwise.
C7_EmptySelectionDistinctFromMissingDir ==
  ppc = "exit_nolabels" => (outputs = {} /\ pLabelsDir)

\* C8: with randomize true, an invocation picks exactly what the earlier
\* invocation on the same label files, count and seed picked.
C8_SameSeedSameSelection ==
  (ppc = "picked" /\ randomize /\ ran) => selected = prevSelected

\* a second invocation picked two or more files in another order than the
\* sorted one
C8_Witness ==
  /\ ppc = "picked" /\ randomize /\ ran
  /\ Len(selected) >= 2
  /\ selected # SubSeq(SortedFiles, 1, Len(selected))

\* C6 for counts of 0 and above only
C6_NonNegativeCount ==
  (ppc = "picked" /\ ~randomize /\ count >= 0) =>
    /\ Len(selected) <= count
    /\ selected = SubSeq(SortedFiles, 1, Min(count, Len(SortedFiles)))

====
